---- MODULE Spec2Model ----
(***************************************************************************)
(* The Mass Mobilization dashboard (src/app.py): a linear script that      *)
(* loads a spreadsheet once (memoised), reads the sidebar widgets, filters *)
(* the table, and computes KPIs, the violence trend and the Country x Year *)
(* heatmap.  Every widget change reruns the script from the top.           *)
(*                                                                         *)
(* A spreadsheet cell that may be empty is an option: <<>> is a missing    *)
(* cell (NaN / NaT), <<x>> a cell holding x.  Percentages that the script  *)
(* rounds to one decimal are kept in tenths of a percent.                  *)
(***************************************************************************)
EXTENDS Integers, Sequences, FiniteSets

VARIABLES
    pc,                  \* position of the script run
    xlsx,                \* rows of "mass mob minimal.xlsx"
    cache,               \* st.cache_data memo of load_data(): <<>> or <<table>>
    df,                  \* the table of this run
    year_range,          \* <<a, b>>
    selected_regions,
    available_countries,
    selected_countries,
    selected_demands,
    selected_responses,
    violence_opts,
    filtered,
    kpi,
    viol_trend,
    top_n,
    top_countries_list,  \* the countries of the list (it is only used with isin)
    heat_pivot           \* index: the rows in order; cells: country -> year -> count

vars == <<pc, xlsx, cache, df, year_range, selected_regions, available_countries,
          selected_countries, selected_demands, selected_responses, violence_opts,
          filtered, kpi, viol_trend, top_n, top_countries_list, heat_pivot>>

widgets == <<year_range, selected_regions, available_countries, selected_countries,
             selected_demands, selected_responses, violence_opts>>

aggregates == <<kpi, viol_trend>>

heat == <<top_n, top_countries_list, heat_pivot>>

----------------------------------------------------------------------------
(* Cells *)

None == <<>>

Some(x) == <<x>>

IsNA(c) == c = None

\* Series.fillna(v)
FillNA(c, v) == IF IsNA(c) THEN v ELSE c[1]

\* Series.isin(values): a missing cell is in no selection of non-missing values
IsIn(c, values) == ~IsNA(c) /\ c[1] \in values

\* Series.dropna().unique()
DropNAUnique(cells) == {c[1] : c \in {x \in cells : ~IsNA(x)}}

Range(s) == {s[i] : i \in DOMAIN s}

RECURSIVE SumOver(_, _)
SumOver(S, f) ==
    IF S = {} THEN 0
    ELSE LET x == CHOOSE y \in S : TRUE IN f[x] + SumOver(S \ {x}, f)

SetMin(S) == CHOOSE x \in S : \A y \in S : x <= y

SetMax(S) == CHOOSE x \in S : \A y \in S : x >= y

----------------------------------------------------------------------------
(* load_data: the normalisation of the spreadsheet *)

\* A participants cell: a numeric cell or a text cell (a sequence of characters)
NumberCell(n) == [isnum |-> TRUE, num |-> n, text |-> <<>>]

TextCell(s) == [isnum |-> FALSE, num |-> 0, text |-> s]

Digits == <<"0", "1", "2", "3", "4", "5", "6", "7", "8", "9">>

IsDigit(ch) == \E i \in DOMAIN Digits : Digits[i] = ch

DigitVal(ch) == (CHOOSE i \in DOMAIN Digits : Digits[i] = ch) - 1

RECURSIVE ParseDigits(_, _)
ParseDigits(s, acc) ==
    IF s = <<>> THEN acc ELSE ParseDigits(Tail(s), acc * 10 + DigitVal(Head(s)))

\* pd.to_numeric(cell, errors="coerce"): a number stays, a text of decimal
\* digits is parsed, any other text and a missing cell become NaN
ToNumeric(c) ==
    IF IsNA(c) THEN None
    ELSE IF c[1].isnum THEN Some(c[1].num)
    ELSE IF c[1].text # <<>> /\ \A i \in DOMAIN c[1].text : IsDigit(c[1].text[i])
         THEN Some(ParseDigits(c[1].text, 0))
    ELSE None

IsLeap(y) == (y % 4 = 0 /\ y % 100 # 0) \/ y % 400 = 0

DaysInMonth(y, m) ==
    IF m = 2 THEN (IF IsLeap(y) THEN 29 ELSE 28)
    ELSE IF m \in {4, 6, 9, 11} THEN 30
    ELSE 31

IsCalendarDate(y, m, d) ==
    /\ y \in 1678..2261          \* the years a Timestamp holds in full
    /\ m \in 1..12
    /\ d >= 1
    /\ d <= DaysInMonth(y, m)

\* pd.to_datetime(frame of year/month/day, errors="coerce"): pandas assembles
\* the three columns into the integer year*10000 + month*100 + day and parses
\* it with the format %Y%m%d; what does not parse becomes NaT
ToDatetime(y, m, d) ==
    LET v == y * 10000 + m * 100 + d
        Y == v \div 10000
        M == (v \div 100) % 100
        D == v % 100
    IN  IF v >= 0 /\ IsCalendarDate(Y, M, D) THEN Some(<<Y, M, D>>) ELSE None

\* df["protesterviolence"].fillna(0).astype(int), on integer-valued cells
CleanViolence(c) == FillNA(c, 0)

\* df["protesterviolence"].map({0: "Peaceful", 1: "Violent"})
ViolenceLabel(v) ==
    IF v = 0 THEN Some("Peaceful") ELSE IF v = 1 THEN Some("Violent") ELSE None

\* One row through load_data
NormalizeRow(r) ==
    LET sm == FillNA(r.startmonth, 1)
        sd == FillNA(r.startday, 1)
        sy == FillNA(r.startyear, r.year)
        pv == CleanViolence(r.protesterviolence)
    IN  [year |-> r.year, region |-> r.region, country |-> r.country,
         protesterdemand1 |-> r.protesterdemand1,
         stateresponse1 |-> r.stateresponse1,
         participants |-> r.participants,
         startyear |-> sy, startmonth |-> sm, startday |-> sd,
         start_date |-> ToDatetime(sy, sm, sd),
         participants_numeric |-> ToNumeric(r.participants),
         protesterviolence |-> pv,
         violence_label |-> ViolenceLabel(pv)]

\* load_data(): column-wise operations, so row by row and in order
load_data(rows) == [i \in DOMAIN rows |-> NormalizeRow(rows[i])]

----------------------------------------------------------------------------
(* Sidebar: the domains the widgets offer *)

Column(t, col) == {t[i][col] : i \in DOMAIN t}

year_min(t) == SetMin(Column(t, "year"))

year_max(t) == SetMax(Column(t, "year"))

\* st.slider with a pair value: any a <= b within [year_min, year_max]
YearRanges(t) ==
    {p \in (year_min(t)..year_max(t)) \X (year_min(t)..year_max(t)) : p[1] <= p[2]}

all_regions(t) == DropNAUnique(Column(t, "region"))

\* Faulty variant: the country list ignores the selected regions
AllCountries(t, regions) == DropNAUnique(Column(t, "country"))

\* df.loc[df["region"].isin(selected_regions), "country"].dropna().unique()
AvailableCountries(t, regions) ==
    DropNAUnique({t[i].country : i \in {j \in DOMAIN t : IsIn(t[j].region, regions)}})

all_demands(t) == DropNAUnique(Column(t, "protesterdemand1"))

all_responses(t) == DropNAUnique(Column(t, "stateresponse1"))

ViolenceOptions == {"All", "Peaceful only", "Violent only"}

----------------------------------------------------------------------------
(* Apply filters *)

\* Faulty variant: the upper bound of the year range is exclusive
BetweenExclusive(y, a, b) == a <= y /\ y < b

\* Series.between(a, b): inclusive on both sides
Between(y, a, b) == a <= y /\ y <= b

\* Faulty variant: no null passthrough
InSelectedOnly(c, selected) == IsIn(c, selected)

\* isin(selected) | isna(): the null passthrough of the demand and response filters
InOrMissing(c, selected) == IsIn(c, selected) \/ IsNA(c)

ViolenceMask(v, opt) ==
    IF opt = "Peaceful only" THEN v = 0
    ELSE IF opt = "Violent only" THEN v = 1
    ELSE TRUE

Mask(r, yr, regions, countries, demands, responses, opt) ==
    /\ Between(r.year, yr[1], yr[2])
    /\ IsIn(r.region, regions)
    /\ IsIn(r.country, countries)
    /\ InOrMissing(r.protesterdemand1, demands)
    /\ InOrMissing(r.stateresponse1, responses)
    /\ ViolenceMask(r.protesterviolence, opt)

\* df[mask].copy(): the masked rows, in order, in a frame of their own
FilterRows(t, yr, regions, countries, demands, responses, opt) ==
    SelectSeq(t, LAMBDA r : Mask(r, yr, regions, countries, demands, responses, opt))

----------------------------------------------------------------------------
(* KPI row and violence trend *)

RowsWhere(t, col, v) == {i \in DOMAIN t : t[i][col] = v}

\* Series.nunique(): distinct non-missing values
NUnique(t, col) == Cardinality(DropNAUnique(Column(t, col)))

\* a / b of two numbers, kept exact; den = 0 is a division by zero
Ratio(a, b) == [num |-> a, den |-> b]

ViolenceSum(t, rows) == SumOver(rows, [i \in rows |-> t[i].protesterviolence])

violent_pct(t) ==
    IF Len(t) # 0 THEN Ratio(ViolenceSum(t, DOMAIN t) * 100, Len(t)) ELSE Ratio(0, 1)

\* "min-max" of the years, or "N/A"
YearSpan(t) ==
    IF Len(t) # 0 THEN Some(<<SetMin(Column(t, "year")), SetMax(Column(t, "year"))>>)
    ELSE None

KpiRow(t) ==
    [total |-> Len(t),
     countries |-> NUnique(t, "country"),
     regions |-> NUnique(t, "region"),
     violent_pct |-> violent_pct(t),
     year_span |-> YearSpan(t)]

\* (a / b * 100).round(1), in tenths of a percent (ties to even)
RoundedRate(a, b) ==
    LET n == a * 1000
        q == n \div b
        r == n % b
    IN  IF 2 * r < b THEN q
        ELSE IF 2 * r > b THEN q + 1
        ELSE IF q % 2 = 0 THEN q ELSE q + 1

\* filtered.groupby("year").agg(total=size, violent=sum), then violence_rate:
\* one entry per year that has a row
ViolTrend(t) ==
    [y \in Column(t, "year") |->
        LET rows == RowsWhere(t, "year", y)
            total == Cardinality(rows)
            violent == ViolenceSum(t, rows)
        IN  [total |-> total, violent |-> violent,
             violence_rate |-> RoundedRate(violent, total)]]

----------------------------------------------------------------------------
(* Country x Year heatmap *)

TopNMin == 5

TopNMax == 30

\* st.slider(..., 5, 30, 15): the positions the model tries are the two ends and
\* the one next to the minimum
TopNs == {TopNMin, TopNMin + 1, TopNMax}

\* Series.value_counts(): count per non-missing value
ValueCounts(t, col) ==
    [v \in DropNAUnique(Column(t, col)) |-> Cardinality(RowsWhere(t, col, Some(v)))]

\* The orders a sort by f can leave S in; the order among equal keys is the
\* sort's own (quicksort), so every order of a tie is possible
RECURSIVE SortOrders(_, _, _)
SortOrders(S, f, ascending) ==
    IF S = {} THEN {<<>>}
    ELSE LET first == {x \in S : \A y \in S :
                          IF ascending THEN f[x] <= f[y] ELSE f[x] >= f[y]}
         IN  UNION {{<<x>> \o rest : rest \in SortOrders(S \ {x}, f, ascending)}
                        : x \in first}

\* value_counts().head(n).index.tolist(), as the set of its members: the first n
\* values of a sort by descending count, whichever way the sort leaves the ties
RECURSIVE HeadOfDescending(_, _, _)
HeadOfDescending(S, counts, n) ==
    IF S = {} \/ n = 0 THEN {{}}
    ELSE LET first == {x \in S : \A y \in S : counts[x] >= counts[y]}
         IN  UNION {{{x} \cup rest : rest \in HeadOfDescending(S \ {x}, counts, n - 1)}
                        : x \in first}

\* Faulty variant: a cell marks the presence of the group instead of counting its rows
GroupPresent(t, c, y) ==
    IF \E i \in DOMAIN t : t[i].country = Some(c) /\ t[i].year = y THEN 1 ELSE 0

\* groupby(["country", "year"]).size(): number of rows of the group
GroupSize(t, c, y) ==
    Cardinality({i \in DOMAIN t : t[i].country = Some(c) /\ t[i].year = y})

\* heat_df, pivoted with fillna(0): rows are the countries of heat_df, columns
\* its years, a cell the group's size or 0 where heat_df has no such group
PivotCells(t, top) ==
    LET kept == SelectSeq(t, LAMBDA r : IsIn(r.country, top))
        index == DropNAUnique(Column(kept, "country"))
        columns == Column(kept, "year")
    IN  [c \in index |-> [y \in columns |-> GroupSize(kept, c, y)]]

RowTotal(cells, c) == SumOver(DOMAIN cells[c], cells[c])

\* Faulty variant: the rows are sorted by descending total
RowOrdersDescending(cells) ==
    SortOrders(DOMAIN cells, [c \in DOMAIN cells |-> RowTotal(cells, c)], FALSE)

\* heat_pivot.loc[heat_pivot.sum(axis=1).sort_values(ascending=True).index]
RowOrders(cells) ==
    SortOrders(DOMAIN cells, [c \in DOMAIN cells |-> RowTotal(cells, c)], TRUE)

----------------------------------------------------------------------------
(* The spreadsheets the model is run on *)

MaxRows == 3

MaxLoadRows == 2

MaxPerCountry == 2

\* A row of the sheet.  Every row has a year and a sheet has at least one row:
\* the sidebar's int(df["year"].min()) needs both.  The numeric cells hold
\* integers.
RawRow(year, region, country, demand, response, violence, sy, sm, sd, participants) ==
    [year |-> year, region |-> region, country |-> country,
     protesterdemand1 |-> demand, stateresponse1 |-> response,
     protesterviolence |-> violence,
     startyear |-> sy, startmonth |-> sm, startday |-> sd,
     participants |-> participants]

\* Rows that differ in what the filters and the aggregations read
FilterCatalog ==
    << RawRow(2000, Some("Asia"), Some("China"), Some("labor"), Some("ignore"),
              Some(0), Some(2000), Some(5), Some(4), Some(NumberCell(250))),
       RawRow(2000, Some("Asia"), Some("China"), None, Some("arrests"),
              Some(1), Some(2000), Some(6), Some(1), Some(NumberCell(250))),
       RawRow(2001, Some("Asia"), Some("India"), Some("land"), None,
              Some(1), Some(2001), Some(1), Some(9), Some(NumberCell(250))),
       RawRow(2001, Some("Europe"), Some("France"), None, None,
              None, Some(2001), Some(3), Some(2), Some(NumberCell(250))),
       RawRow(2000, Some("Europe"), Some("France"), Some("labor"), Some("ignore"),
              Some(2), Some(2000), Some(7), Some(7), Some(NumberCell(250))),
       RawRow(2001, Some("Asia"), Some("China"), Some("labor"), Some("ignore"),
              Some(0), Some(2001), Some(8), Some(8), Some(NumberCell(250))),
       RawRow(2001, Some("Europe"), None, Some("labor"), Some("ignore"),
              Some(1), Some(2001), Some(9), Some(9), Some(NumberCell(250))) >>

LoadRow(violence, sy, sm, sd, participants) ==
    RawRow(2000, Some("Asia"), Some("China"), None, None,
           violence, sy, sm, sd, participants)

\* Rows that differ in what load_data normalises
LoadCatalog ==
    << LoadRow(Some(0), Some(2000), Some(2), Some(29), Some(NumberCell(250))),
       LoadRow(Some(1), Some(2001), Some(2), Some(29), Some(TextCell(<<"1", "0", "0">>))),
       LoadRow(None, None, None, None, None),
       LoadRow(Some(2), Some(2000), Some(13), Some(1),
               Some(TextCell(<<"5", "0", "-", "9", "9">>))),
       LoadRow(Some(1), Some(2000), Some(4), Some(31),
               Some(TextCell(<<">", "1", "0", "0", "0", "0">>))),
       LoadRow(Some(0), None, Some(1), Some(101), Some(NumberCell(50))),
       LoadRow(Some(1), Some(2000), Some(0), Some(15), None),
       LoadRow(None, Some(2000), Some(12), Some(31), Some(TextCell(<<>>))) >>

RECURSIVE Copies(_, _)
Copies(x, n) == IF n = 0 THEN <<>> ELSE <<x>> \o Copies(x, n - 1)

RECURSIVE Expand(_, _, _)
Expand(m, catalog, i) ==
    IF i > Len(catalog) THEN <<>>
    ELSE Copies(catalog[i], m[i]) \o Expand(m, catalog, i + 1)

\* The tables of 1..maxRows rows of the catalog, rows in catalog order
Tables(catalog, maxRows) ==
    {Expand(m, catalog, 1) :
        m \in {f \in [DOMAIN catalog -> 0..maxRows] : SumOver(DOMAIN f, f) \in 1..maxRows}}

HeatCountries == <<"Kenya", "Nigeria", "Ghana", "Mali", "Chad", "Togo">>

\* The k-th event of a country: the years alternate
HeatRow(c, k) ==
    RawRow(2000 + (k % 2), Some("Africa"), Some(c), None, None,
           Some(0), Some(2000 + (k % 2)), Some(1), Some(1), Some(NumberCell(250)))

RECURSIVE HeatRows(_, _, _)
HeatRows(m, i, k) ==
    IF i > Len(HeatCountries) THEN <<>>
    ELSE IF k > m[i] THEN HeatRows(m, i + 1, 1)
    ELSE <<HeatRow(HeatCountries[i], k)>> \o HeatRows(m, i, k + 1)

\* Tables with more countries than the heatmap slider's minimum: each of the six
\* countries has 1..MaxPerCountry events; the countries being interchangeable,
\* they are listed by non-decreasing number of events
HeatTables ==
    {HeatRows(m, 1, 1) :
        m \in {f \in [DOMAIN HeatCountries -> 1..MaxPerCountry] :
                  \A i \in DOMAIN f : i = 1 \/ f[i - 1] <= f[i]}}

----------------------------------------------------------------------------
(* The script *)

NoPivot == [index |-> <<>>, cells |-> <<>>]

InitWith(tables) ==
    /\ pc = "start"
    /\ xlsx \in tables
    /\ cache = None
    /\ df = <<>>
    /\ year_range = <<0, 0>>
    /\ selected_regions = {}
    /\ available_countries = {}
    /\ selected_countries = {}
    /\ selected_demands = {}
    /\ selected_responses = {}
    /\ violence_opts = "All"
    /\ filtered = <<>>
    /\ kpi = KpiRow(<<>>)
    /\ viol_trend = <<>>
    /\ top_n = 0
    /\ top_countries_list = {}
    /\ heat_pivot = NoPivot

Init == InitWith(Tables(FilterCatalog, MaxRows) \cup Tables(LoadCatalog, MaxLoadRows))

InitHeat == InitWith(HeatTables)

\* df = load_data(): st.cache_data runs load_data on the first call of the
\* process and hands every caller a copy of the memoised table
Load ==
    /\ pc = "start"
    /\ cache' = IF cache = None THEN Some(load_data(xlsx)) ELSE cache
    /\ df' = cache'[1]
    /\ pc' = "sidebar"
    /\ UNCHANGED <<xlsx, widgets, filtered, aggregates, heat>>

\* with st.sidebar: the widgets return the user's selection
Sidebar ==
    /\ pc = "sidebar"
    /\ year_range' \in YearRanges(df)
    /\ selected_regions' \in SUBSET all_regions(df)
    /\ available_countries' = AvailableCountries(df, selected_regions')
    /\ selected_countries' \in SUBSET available_countries'
    /\ selected_demands' \in SUBSET all_demands(df)
    /\ selected_responses' \in SUBSET all_responses(df)
    /\ violence_opts' \in ViolenceOptions
    /\ pc' = "filter"
    /\ UNCHANGED <<xlsx, cache, df, filtered, aggregates, heat>>

\* Faulty variant: the filter narrows the memoised table itself (df = df[mask] on a
\* memo handed out by reference)
ApplyFiltersInPlace ==
    /\ pc = "filter"
    /\ filtered' = FilterRows(df, year_range, selected_regions, selected_countries,
                              selected_demands, selected_responses, violence_opts)
    /\ df' = filtered'
    /\ cache' = Some(filtered')
    /\ pc' = "kpi"
    /\ UNCHANGED <<xlsx, widgets, aggregates, heat>>

\* mask = ...; filtered = df[mask].copy()
ApplyFilters ==
    /\ pc = "filter"
    /\ filtered' = FilterRows(df, year_range, selected_regions, selected_countries,
                              selected_demands, selected_responses, violence_opts)
    /\ pc' = "kpi"
    /\ UNCHANGED <<xlsx, cache, df, widgets, aggregates, heat>>

\* the KPI row and the violence trend
Aggregate ==
    /\ pc = "kpi"
    /\ kpi' = KpiRow(filtered)
    /\ viol_trend' = ViolTrend(filtered)
    /\ pc' = "heatmap"
    /\ UNCHANGED <<xlsx, cache, df, widgets, filtered, heat>>

\* the heatmap slider, the top countries and the pivot
Heatmap ==
    /\ pc = "heatmap"
    /\ top_n' \in TopNs
    /\ LET counts == ValueCounts(filtered, "country")
       IN  top_countries_list' \in HeadOfDescending(DOMAIN counts, counts, top_n')
    /\ LET cells == PivotCells(filtered, top_countries_list')
       IN  \E index \in RowOrders(cells) :
               heat_pivot' = [index |-> index, cells |-> cells]
    /\ pc' = "done"
    /\ UNCHANGED <<xlsx, cache, df, widgets, filtered, aggregates>>

\* a widget changes: the script runs again from the top; only the memoised
\* table outlives the run
Rerun ==
    /\ pc = "done"
    /\ pc' = "start"
    /\ df' = <<>>
    /\ year_range' = <<0, 0>>
    /\ selected_regions' = {}
    /\ available_countries' = {}
    /\ selected_countries' = {}
    /\ selected_demands' = {}
    /\ selected_responses' = {}
    /\ violence_opts' = "All"
    /\ filtered' = <<>>
    /\ kpi' = KpiRow(<<>>)
    /\ viol_trend' = <<>>
    /\ top_n' = 0
    /\ top_countries_list' = {}
    /\ heat_pivot' = NoPivot
    /\ UNCHANGED <<xlsx, cache>>

Next == Load \/ Sidebar \/ ApplyFilters \/ Aggregate \/ Heatmap \/ Rerun

Spec == Init /\ [][Next]_vars

SpecHeat == InitHeat /\ [][Next]_vars

----------------------------------------------------------------------------
(* Properties *)

WidgetsRead == pc \in {"filter", "kpi", "heatmap", "done"}

Filtered == pc \in {"kpi", "heatmap", "done"}

Aggregated == pc \in {"heatmap", "done"}

HeatmapDone == pc = "done"

Count(t, r) == Cardinality({i \in DOMAIN t : t[i] = r})

YearOk(r) == year_range[1] <= r.year /\ r.year <= year_range[2]

RegionOk(r) == r.region # None /\ r.region[1] \in selected_regions

CountryOk(r) == r.country # None /\ r.country[1] \in selected_countries

DemandOk(r) == r.protesterdemand1 = None \/ r.protesterdemand1[1] \in selected_demands

ResponseOk(r) == r.stateresponse1 = None \/ r.stateresponse1[1] \in selected_responses

ViolenceOk(r) ==
    /\ violence_opts = "Peaceful only" => r.protesterviolence = 0
    /\ violence_opts = "Violent only" => r.protesterviolence = 1

Satisfies(r) ==
    YearOk(r) /\ RegionOk(r) /\ CountryOk(r) /\ DemandOk(r) /\ ResponseOk(r) /\ ViolenceOk(r)

\* C1: the filtered set is exactly the rows of the table within the year range
\* (both ends included), of a selected region and country, whose demand and
\* response are selected or missing, and that meet the violence mode: every such
\* row is there as often as in the table, and no other row is there.
C1_FilteredExactly ==
    Filtered =>
        \A r \in Range(df) \cup Range(filtered) :
            Count(filtered, r) = IF Satisfies(r) THEN Count(df, r) ELSE 0

\* C1 witness: the filter has kept some rows and dropped others, one of them for
\* its year alone, under a violence mode other than "All"
C1_Witness ==
    /\ Filtered
    /\ filtered # <<>>
    /\ violence_opts = "Violent only"
    /\ \E i \in DOMAIN df :
          /\ ~YearOk(df[i])
          /\ RegionOk(df[i]) /\ CountryOk(df[i]) /\ DemandOk(df[i])
          /\ ResponseOk(df[i]) /\ ViolenceOk(df[i])
    /\ \E i \in DOMAIN df : YearOk(df[i]) /\ ~ViolenceOk(df[i])

\* C2 as stated: a row with a missing demand, or with a missing response, is in
\* the filtered set as soon as it meets the year, region, country and violence
\* constraints.
C2_AsStated ==
    Filtered =>
        \A i \in DOMAIN df :
            LET r == df[i]
            IN  (/\ YearOk(r) /\ RegionOk(r) /\ CountryOk(r) /\ ViolenceOk(r)
                 /\ (r.protesterdemand1 = None \/ r.stateresponse1 = None))
                    => Count(filtered, r) = Count(df, r)

\* C2 (amended): a row with a missing demand is in the filtered set whatever
\* demands are selected, and a row with a missing response whatever responses are
\* selected, provided it meets the year, region, country and violence constraints
\* and the other of the two (the response, respectively the demand) constraint.
C2_NullPassthrough ==
    Filtered =>
        \A i \in DOMAIN df :
            LET r == df[i]
            IN  (/\ YearOk(r) /\ RegionOk(r) /\ CountryOk(r) /\ ViolenceOk(r)
                 /\ \/ r.protesterdemand1 = None /\ ResponseOk(r)
                    \/ r.stateresponse1 = None /\ DemandOk(r))
                    => Count(filtered, r) = Count(df, r)

\* C2 witness: no demand and no response is selected although the table has
\* some; a row missing both is kept while another row is dropped
C2_Witness ==
    /\ Filtered
    /\ selected_demands = {} /\ all_demands(df) # {}
    /\ selected_responses = {} /\ all_responses(df) # {}
    /\ \E i \in DOMAIN filtered :
          filtered[i].protesterdemand1 = None /\ filtered[i].stateresponse1 = None
    /\ \E i \in DOMAIN df :
          /\ YearOk(df[i]) /\ RegionOk(df[i]) /\ CountryOk(df[i]) /\ ViolenceOk(df[i])
          /\ Count(filtered, df[i]) = 0

ViolentRows(t) == {i \in DOMAIN t : t[i].protesterviolence = 1}

\* C3: on an empty filtered set the KPIs are 0, 0, 0, 0 and "N/A" and nothing
\* is divided by zero; on a non-empty one the violent percentage is the number
\* of violent rows over the number of rows, times 100.
C3_Kpis ==
    Aggregated =>
        /\ kpi.violent_pct.den # 0
        /\ filtered = <<>> =>
              /\ kpi.total = 0 /\ kpi.countries = 0 /\ kpi.regions = 0
              /\ kpi.violent_pct.num = 0
              /\ kpi.year_span = None
        /\ filtered # <<>> =>
              kpi.violent_pct.num * Len(filtered)
                  = Cardinality(ViolentRows(filtered)) * 100 * kpi.violent_pct.den

\* The part of C3 about the empty filtered set, and the guard of the division
EmptySetKpis ==
    Aggregated =>
        /\ kpi.violent_pct.den # 0
        /\ filtered = <<>> =>
              /\ kpi.total = 0 /\ kpi.countries = 0 /\ kpi.regions = 0
              /\ kpi.violent_pct.num = 0
              /\ kpi.year_span = None

EmptySetKpisWitness == Aggregated /\ filtered = <<>> /\ selected_regions = {}

\* r is a / b * 100 rounded to one decimal, in tenths of a percent
NearestTenth(r, a, b) ==
    LET d == r * b - 1000 * a IN 2 * d <= b /\ -2 * d <= b

\* C4: for every year of the selected range with t > 0 filtered rows, v of them
\* violent, the trend reports round(v/t*100, 1); for a year with no filtered row
\* it reports 0.
C4_ViolenceRate ==
    Aggregated =>
        \A y \in year_range[1]..year_range[2] :
            LET rows == {i \in DOMAIN filtered : filtered[i].year = y}
                t == Cardinality(rows)
                v == Cardinality(rows \cap ViolentRows(filtered))
            IN  /\ y \in DOMAIN viol_trend
                /\ IF t > 0 THEN NearestTenth(viol_trend[y].violence_rate, v, t)
                   ELSE viol_trend[y].violence_rate = 0

\* What the trend holds: an entry for each year that has a filtered row, and no
\* other; its rate is the rounded share of the sum of the year's violence values
RateOfYearsWithRows ==
    Aggregated =>
        /\ DOMAIN viol_trend = {filtered[i].year : i \in DOMAIN filtered}
        /\ \A y \in DOMAIN viol_trend :
              LET rows == {i \in DOMAIN filtered : filtered[i].year = y}
                  t == viol_trend[y]
              IN  /\ t.total = Cardinality(rows) /\ t.total > 0
                  /\ t.violent = ViolenceSum(filtered, rows)
                  /\ NearestTenth(t.violence_rate, t.violent, t.total)

CountryRows(t, c) == {i \in DOMAIN t : t[i].country = Some(c)}

\* C5: for every country that is a row of the pivot, the row's cells over all
\* year columns sum to the number of filtered rows of that country, and a cell of
\* a (country, year) pair without event is 0.
C5_PivotRowSums ==
    HeatmapDone =>
        \A c \in Range(heat_pivot.index) :
            LET row == heat_pivot.cells[c]
            IN  /\ SumOver(DOMAIN row, row) = Cardinality(CountryRows(filtered, c))
                /\ \A y \in DOMAIN row :
                      (\A i \in CountryRows(filtered, c) : filtered[i].year # y)
                          => row[y] = 0

\* C5 witness: a pivot row with a cell of 2 or more and a cell of 0
C5_Witness ==
    /\ HeatmapDone
    /\ \E c \in Range(heat_pivot.index) :
          \E y1, y2 \in DOMAIN heat_pivot.cells[c] :
              heat_pivot.cells[c][y1] >= 2 /\ heat_pivot.cells[c][y2] = 0

\* C6: filtering and aggregation never modify the loaded table, in any run of any
\* sequence of reruns: the memoised table and the table of the run stay what
\* load_data made of the spreadsheet, so the filtered set is a function of that
\* table and the current constraint set alone (the same constraints give the same
\* result in every run).
C6_NoHiddenState ==
    /\ cache # None => cache[1] = load_data(xlsx)
    /\ pc # "start" => df = load_data(xlsx)
    /\ Filtered => filtered = SelectSeq(load_data(xlsx), Satisfies)

\* C6 witness: a run, filter and aggregations included, has completed and the
\* next one starts: the memo is still the loaded table
C6_Witness ==
    /\ pc = "start"
    /\ cache # None
    /\ Len(cache[1]) > 1

\* C7: after load_data every row has protesterviolence 0 or 1, whatever the
\* spreadsheet held, and a missing value has become 0.
C7_ViolenceIsFlag ==
    cache # None =>
        \A i \in DOMAIN cache[1] :
            /\ cache[1][i].protesterviolence \in {0, 1}
            /\ xlsx[i].protesterviolence = None => cache[1][i].protesterviolence = 0

\* The part of C7 about missing values
MissingViolenceIsZero ==
    cache # None =>
        /\ DOMAIN cache[1] = DOMAIN xlsx
        /\ \A i \in DOMAIN xlsx :
              xlsx[i].protesterviolence = None => cache[1][i].protesterviolence = 0

IsNumericCell(c) ==
    /\ c # None
    /\ \/ c[1].isnum
       \/ c[1].text # <<>> /\ \A k \in DOMAIN c[1].text : IsDigit(c[1].text[k])

\* C8: load_data returns exactly the input rows; a row whose (startyear,
\* startmonth, startday), after the defaults, is not a calendar date has a missing
\* start_date, and a row whose participants is not numeric has a missing
\* participants_numeric.
C8_RowsKeptFieldsMissing ==
    cache # None =>
        /\ Len(cache[1]) = Len(xlsx)
        /\ \A i \in DOMAIN xlsx :
              LET in == xlsx[i]
                  out == cache[1][i]
                  sy == IF in.startyear = None THEN in.year ELSE in.startyear[1]
                  sm == IF in.startmonth = None THEN 1 ELSE in.startmonth[1]
                  sd == IF in.startday = None THEN 1 ELSE in.startday[1]
              IN  /\ out.year = in.year /\ out.country = in.country
                  /\ out.region = in.region /\ out.participants = in.participants
                  /\ ~IsCalendarDate(sy, sm, sd) => out.start_date = None
                  /\ ~IsNumericCell(in.participants) => out.participants_numeric = None

\* The part of C8 about the rows and the participants
RowsKeptParticipantsMissing ==
    cache # None =>
        /\ Len(cache[1]) = Len(xlsx)
        /\ \A i \in DOMAIN xlsx :
              /\ cache[1][i].year = xlsx[i].year
              /\ cache[1][i].country = xlsx[i].country
              /\ cache[1][i].participants = xlsx[i].participants
              /\ ~IsNumericCell(xlsx[i].participants)
                    => cache[1][i].participants_numeric = None

RegionRows(t, regions) ==
    {i \in DOMAIN t : t[i].region # None /\ t[i].region[1] \in regions}

CountriesOf(t, rows) == {t[i].country[1] : i \in {j \in rows : t[j].country # None}}

\* C9: the countries offered are exactly the non-missing countries of the rows of
\* the full table whose region is selected: none when no region is selected,
\* more (never fewer) for a larger region selection, and with all of them
\* selected every filtered row's country is one of them.
C9_CountriesFollowRegions ==
    WidgetsRead =>
        /\ available_countries = CountriesOf(df, RegionRows(df, selected_regions))
        /\ selected_regions = {} => available_countries = {}
        /\ \A R \in SUBSET all_regions(df) :
              /\ R \subseteq selected_regions
                    => AvailableCountries(df, R) \subseteq available_countries
              /\ selected_regions \subseteq R
                    => available_countries \subseteq AvailableCountries(df, R)
        /\ (Filtered /\ selected_countries = available_countries)
              => \A i \in DOMAIN filtered :
                    /\ filtered[i].country # None
                    /\ filtered[i].country[1] \in available_countries

\* C9 witness: some but not all regions are selected, the offer holds some but
\* not all countries of the table, all of it is selected and rows pass
C9_Witness ==
    /\ Filtered
    /\ selected_regions # {} /\ selected_regions # all_regions(df)
    /\ available_countries # {}
    /\ available_countries # CountriesOf(df, DOMAIN df)
    /\ selected_countries = available_countries
    /\ filtered # <<>>

\* C10: the matrix has min(N, number of distinct countries of the filtered set)
\* rows, every country in it has at least as many filtered rows as every country
\* left out, and its rows are in non-decreasing order of row total.
C10_TopRowsAscending ==
    HeatmapDone =>
        LET index == heat_pivot.index
            countries == CountriesOf(filtered, DOMAIN filtered)
            n == Cardinality(countries)
        IN  /\ Len(index) = IF top_n <= n THEN top_n ELSE n
            /\ Cardinality(Range(index)) = Len(index)
            /\ Range(index) \subseteq countries
            /\ \A c \in Range(index) : \A d \in countries \ Range(index) :
                  Cardinality(CountryRows(filtered, c))
                      >= Cardinality(CountryRows(filtered, d))
            /\ \A i \in 1..(Len(index) - 1) :
                  SumOver(DOMAIN heat_pivot.cells[index[i]], heat_pivot.cells[index[i]])
                      <= SumOver(DOMAIN heat_pivot.cells[index[i + 1]],
                                 heat_pivot.cells[index[i + 1]])

\* C10 witness: the slider is at its minimum and the filtered set has more
\* countries; a country with fewer rows is left out, and the first and the last
\* row of the matrix differ in total
C10_Witness ==
    /\ HeatmapDone
    /\ top_n = TopNMin
    /\ Cardinality(CountriesOf(filtered, DOMAIN filtered)) > TopNMin
    /\ Len(heat_pivot.index) = TopNMin
    /\ \E c \in Range(heat_pivot.index) :
          \E d \in CountriesOf(filtered, DOMAIN filtered) \ Range(heat_pivot.index) :
              Cardinality(CountryRows(filtered, c)) > Cardinality(CountryRows(filtered, d))
    /\ Cardinality(CountryRows(filtered, heat_pivot.index[1]))
          < Cardinality(CountryRows(filtered, heat_pivot.index[TopNMin]))

====
